---- MODULE Spec2Model ----
(***************************************************************************)
(* Model of ModernAttendanceSystem (src/attendifyme.py): the spreadsheet   *)
(* backed attendance roster, the lecture schedule, typed and face          *)
(* recognition marking, and the refresh of the roster from the sheet.      *)
(*                                                                         *)
(* Identifiers (PRNs) and clock strings are sequences of one-character     *)
(* strings, so that strip(), isalnum(), str() of a numericised cell and    *)
(* the "HH:MM" string comparison are computed as the code computes them.   *)
(***************************************************************************)
EXTENDS Integers, Sequences, FiniteSets, TLC

\* ------------------------------------------------------------------ bounds
\* Largest number of data rows in the sheet.
MaxRows == 2
\* Largest number of matched candidates handled in one camera frame.
MaxBatch == 2

\* ------------------------------------------------------------ characters
Digits == {"0", "1", "2", "3", "4", "5", "6", "7", "8", "9"}
Letters == {"A"}

\* ord() of the characters that occur in "%H:%M" strings.
Ord(c) ==
  CASE c = "0" -> 48 [] c = "1" -> 49 [] c = "2" -> 50 [] c = "3" -> 51
    [] c = "4" -> 52 [] c = "5" -> 53 [] c = "6" -> 54 [] c = "7" -> 55
    [] c = "8" -> 56 [] c = "9" -> 57 [] c = ":" -> 58

DigitChar(d) ==
  CASE d = 0 -> "0" [] d = 1 -> "1" [] d = 2 -> "2" [] d = 3 -> "3"
    [] d = 4 -> "4" [] d = 5 -> "5" [] d = 6 -> "6" [] d = 7 -> "7"
    [] d = 8 -> "8" [] d = 9 -> "9"

\* Python's comparison of two str values: lexicographic by code point.
RECURSIVE StrLeq(_, _)
StrLeq(a, b) ==
  IF a = <<>> THEN TRUE
  ELSE IF b = <<>> THEN FALSE
  ELSE IF Ord(Head(a)) < Ord(Head(b)) THEN TRUE
  ELSE IF Ord(Head(a)) > Ord(Head(b)) THEN FALSE
  ELSE StrLeq(Tail(a), Tail(b))

\* datetime.now().strftime("%H:%M") for a minute of the day 0..1439.
strftime(minute) ==
  LET h == minute \div 60
      m == minute % 60
  IN  <<DigitChar(h \div 10), DigitChar(h % 10), ":",
        DigitChar(m \div 10), DigitChar(m % 10)>>

\* str.strip(): drop leading and trailing whitespace.
RECURSIVE LStrip(_)
LStrip(s) == IF s # <<>> /\ Head(s) = " " THEN LStrip(Tail(s)) ELSE s

RECURSIVE RStrip(_)
RStrip(s) ==
  IF s # <<>> /\ s[Len(s)] = " " THEN RStrip(SubSeq(s, 1, Len(s) - 1)) ELSE s

Strip(s) == RStrip(LStrip(s))

\* str.isalnum(): at least one character and every character alphanumeric.
isalnum(s) ==
  /\ s # <<>>
  /\ \A i \in 1..Len(s) : s[i] \in Digits \cup Letters

\* ---------------------------------------------------------------- schedule
LectureNames ==
  <<"Lecture1", "Lecture2", "Lecture3", "Lecture4",
    "Lecture5", "Lecture6", "Lecture7", "Lecture8">>

LectureSet == {LectureNames[i] : i \in 1..Len(LectureNames)}

\* The lectures dict of get_current_lecture, in insertion order.
lectures ==
  <<[name |-> "Lecture1", start |-> <<"0","8",":","0","0">>, end |-> <<"0","9",":","0","0">>],
    [name |-> "Lecture2", start |-> <<"0","9",":","1","0">>, end |-> <<"1","0",":","1","0">>],
    [name |-> "Lecture3", start |-> <<"1","0",":","2","0">>, end |-> <<"1","1",":","2","0">>],
    [name |-> "Lecture4", start |-> <<"1","1",":","3","0">>, end |-> <<"1","2",":","3","0">>],
    [name |-> "Lecture5", start |-> <<"1","4",":","0","0">>, end |-> <<"1","5",":","0","0">>],
    [name |-> "Lecture6", start |-> <<"1","5",":","1","0">>, end |-> <<"1","6",":","1","0">>],
    [name |-> "Lecture7", start |-> <<"1","6",":","2","0">>, end |-> <<"1","7",":","2","0">>],
    [name |-> "Lecture8", start |-> <<"1","7",":","3","0">>, end |-> <<"2","3",":","3","0">>]>>

NoLecture == "None"

\* InWindow with the end of the window left out: start <= now < end.
InWindow_HalfOpen(lec, nowStr) ==
  StrLeq(lec.start, nowStr) /\ StrLeq(nowStr, lec.end) /\ nowStr # lec.end

\* The window test of the loop body: start <= now <= end on strings.
InWindow(lec, nowStr) == StrLeq(lec.start, nowStr) /\ StrLeq(nowStr, lec.end)

\* The for loop of get_current_lecture from the i-th lecture on: the first
\* lecture, in dict order, whose window contains nowStr; None if there is none.
RECURSIVE first_lecture(_, _)
first_lecture(nowStr, i) ==
  IF i > Len(lectures) THEN NoLecture
  ELSE IF InWindow(lectures[i], nowStr) THEN lectures[i].name
  ELSE first_lecture(nowStr, i + 1)

\* get_current_lecture at the given minute of the day.
get_current_lecture(minute) == first_lecture(strftime(minute), 1)

\* ------------------------------------------------------------------- sheet
\* Column headers of the worksheet the code reads and searches.
AllCols == {"PRN", "RName"} \cup LectureSet

\* Two ordinary PRNs.
A1 == <<"A", "1">>
A2 == <<"A", "2">>

RNameOf(cell) ==
  IF cell = A1 THEN "Alice" ELSE IF cell = A2 THEN "Bob" ELSE "Eve"

\* A data row whose lecture cells all hold the same value.
Row(cell, fill) ==
  [PRN |-> cell, RName |-> RNameOf(cell), att |-> [l \in LectureSet |-> fill]]

RECURSIVE DropZeros(_)
DropZeros(s) == IF Len(s) > 1 /\ Head(s) = "0" THEN DropZeros(Tail(s)) ELSE s

\* str(v) of the value get_all_records() delivers for a cell: cells that read
\* as an unsigned integer are delivered as int, so str() drops leading zeros.
str_of_cell(cell) ==
  IF cell # <<>> /\ \A i \in 1..Len(cell) : cell[i] \in Digits
  THEN DropZeros(cell)
  ELSE cell

\* sheet.get_all_records(): one dict per data row, keyed by the header row.
get_all_records(sheetRows, sheetCols) ==
  [i \in 1..Len(sheetRows) |->
     [keys |-> sheetCols,
      PRN |-> str_of_cell(sheetRows[i].PRN),
      RName |-> sheetRows[i].RName,
      att |-> sheetRows[i].att]]

\* record.get(f'Lecture{i}', 'Absent')
record_get(record, lec) ==
  IF lec \in record.keys THEN record.att[lec] ELSE "Absent"

\* sheet.find(prn): the row of the first cell holding exactly prn, 0 for None.
find_row(sheetRows, prn) ==
  LET hits == {i \in 1..Len(sheetRows) : sheetRows[i].PRN = prn}
  IN  IF hits = {} THEN 0 ELSE CHOOSE i \in hits : \A j \in hits : i <= j

\* sheet.find(current_lecture) is a cell (not None) iff the header has it.
find_col(sheetCols, lec) == lec \in sheetCols

\* update_cell writing 'Present' into every lecture column of the row.
update_cell_WholeRow(sheetRows, r, lec) ==
  [sheetRows EXCEPT ![r].att = [l \in LectureSet |-> "Present"]]

\* sheet.update_cell(row_num, col_num, 'Present')
update_cell(sheetRows, r, lec) ==
  [sheetRows EXCEPT ![r].att[lec] = "Present"]

\* ------------------------------------------------------------------ roster
EmptyData == [p \in {} |-> 0]

\* self.students_data[prn] = {...}: insert or overwrite the key.
dict_set(data, p, v) ==
  [q \in DOMAIN data \cup {p} |-> IF q = p THEN v ELSE data[q]]

\* The loop of setup_student_data over records i..n: every lecture Absent.
\* A record without the 'PRN' or 'RName' key raises KeyError and ends the loop.
RECURSIVE load_defaults(_, _, _)
load_defaults(records, i, data) ==
  IF i > Len(records) THEN [ok |-> TRUE, data |-> data]
  ELSE IF "PRN" \notin records[i].keys \/ "RName" \notin records[i].keys
       THEN [ok |-> FALSE, data |-> data]
  ELSE load_defaults(records, i + 1,
         dict_set(data, records[i].PRN,
           [name |-> records[i].RName,
            attendance |-> [l \in LectureSet |-> "Absent"]]))

\* The loop of update_attendance_from_sheet over records i..n.
RECURSIVE load_from_sheet(_, _, _)
load_from_sheet(records, i, data) ==
  IF i > Len(records) THEN [ok |-> TRUE, data |-> data]
  ELSE IF "PRN" \notin records[i].keys \/ "RName" \notin records[i].keys
       THEN [ok |-> FALSE, data |-> data]
  ELSE load_from_sheet(records, i + 1,
         dict_set(data, records[i].PRN,
           [name |-> records[i].RName,
            attendance |-> [l \in LectureSet |-> record_get(records[i], l)]]))

\* Messages of show_message, by the text they carry.
MsgRefreshed == "Data refreshed successfully"
MsgRefreshError == "Error refreshing data"
MsgLoadError == "Error loading student data"
MsgConnected == "Connected to Google Sheets"
MsgConnectFailed == "Google Sheets connection failed"
MsgInitError == "Initialization error"
MsgNoLecture == "No active lecture at this time"
MsgEnterValid == "Please enter a valid PRN"
MsgNotFound == "PRN not found"
MsgAlready == "Already marked present"
MsgMarked == "Marked present"
MsgNotInSheet == "Error: PRN not found in sheet"
MsgMarkError == "Error marking attendance"
MsgEnterPRN == "Please enter a PRN"
MsgNotAlnum == "PRN must be alphanumeric characters"
MsgNotInDatabase == "PRN not found in the database"
MsgValidationError == "PRN validation error"
MsgFaceError == "Face recognition error"
MsgFaceOff == "Face recognition deactivated"
MsgFaceOn == "Face recognition activated"
MsgNoFaceData == "No face recognition data available"
MsgCameraError == "Camera error"

\* One show_message call, with what the handler that made it was doing: the
\* call it came from, the PRN and lecture it was about, the roster status of
\* that PRN in that lecture before and after the call, the store failure the
\* call ran into, and the sheet row it wrote (0: none).
Shown(msg) ==
  [call |-> "other", msg |-> msg, prn |-> <<>>, lecture |-> NoLecture,
   before |-> "", after |-> "", fault |-> "none", wrote |-> 0]

\* update_attendance_from_sheet: [data, shown, ok].  fault is a failure of the
\* get_all_records call; bound tells whether self.sheet was ever assigned.
update_attendance_from_sheet(bound, sheetRows, sheetCols, data, fault) ==
  IF ~bound \/ fault
  THEN [data |-> data, shown |-> Shown(MsgRefreshError), ok |-> FALSE]
  ELSE LET r == load_from_sheet(get_all_records(sheetRows, sheetCols), 1, EmptyData)
       IN  IF r.ok
           THEN [data |-> r.data, shown |-> Shown(MsgRefreshed), ok |-> TRUE]
           ELSE [data |-> r.data, shown |-> Shown(MsgRefreshError), ok |-> FALSE]

\* setup_student_data: [ok, data, shown].  fault1 and fault2 are failures of
\* its own get_all_records call and of the one made by the refresh it ends with.
setup_student_data(sheetRows, sheetCols, fault1, fault2) ==
  IF fault1
  THEN [ok |-> FALSE, data |-> EmptyData, shown |-> <<Shown(MsgLoadError)>>]
  ELSE LET r == load_defaults(get_all_records(sheetRows, sheetCols), 1, EmptyData)
       IN  IF ~r.ok
           THEN [ok |-> FALSE, data |-> r.data, shown |-> <<Shown(MsgLoadError)>>]
           ELSE LET u == update_attendance_from_sheet(TRUE, sheetRows, sheetCols,
                                                      r.data, fault2)
                IN  [ok |-> TRUE, data |-> u.data, shown |-> <<u.shown>>]

\* ----------------------------------------------------------------- marking
\* Failures of the store calls made by one marking attempt: none, a failure
\* raised by one of the two sheet.find calls, or one raised by update_cell.
StoreFaults == {"none", "find", "update"}

\* gate without the check for a status that is already 'Present'.
gate_NoPresentCheck(p, current_lecture, hasData, data) ==
  IF current_lecture = NoLecture THEN MsgNoLecture
  ELSE IF p = <<>> THEN MsgEnterValid
  ELSE IF ~hasData THEN "raise"
  ELSE IF p \notin DOMAIN data THEN MsgNotFound
  ELSE "pass"

\* gate looking the PRN up before it looks at the lecture.
gate_LookupFirst(p, current_lecture, hasData, data) ==
  IF p = <<>> THEN MsgEnterValid
  ELSE IF ~hasData THEN "raise"
  ELSE IF p \notin DOMAIN data THEN MsgNotFound
  ELSE IF current_lecture = NoLecture THEN MsgNoLecture
  ELSE IF data[p].attendance[current_lecture] = "Present" THEN MsgAlready
  ELSE "pass"

\* The checks of mark_attendance ahead of its try block, in their order: the
\* message of the one that returns, "raise" for the AttributeError of reading
\* a students_data that was never assigned, "pass" when all are passed.
gate(p, current_lecture, hasData, data) ==
  IF current_lecture = NoLecture THEN MsgNoLecture
  ELSE IF p = <<>> THEN MsgEnterValid
  ELSE IF ~hasData THEN "raise"
  ELSE IF p \notin DOMAIN data THEN MsgNotFound
  ELSE IF data[p].attendance[current_lecture] = "Present" THEN MsgAlready
  ELSE "pass"

\* student['attendance'][current_lecture] = 'Present'
set_present(data, p, lec) == [data EXCEPT ![p].attendance[lec] = "Present"]

\* write_through updating the local data ahead of the cell: a failing
\* update_cell leaves the local status 'Present'.
write_through_LocalFirst(p, current_lecture, fault, bound, sheetRows, sheetCols, data) ==
  LET row_num == find_row(sheetRows, p)
      failed(msg, hit) ==
        [rows |-> sheetRows, data |-> data, msg |-> msg, fault |-> hit, wrote |-> 0]
  IN  IF ~bound THEN failed(MsgMarkError, "raised")
      ELSE IF fault = "find" THEN failed(MsgMarkError, "raised")
      ELSE IF row_num = 0 THEN failed(MsgNotInSheet, "no row")
      ELSE IF ~find_col(sheetCols, current_lecture) THEN failed(MsgMarkError, "raised")
      ELSE IF fault = "update"
           THEN [rows |-> sheetRows, data |-> set_present(data, p, current_lecture),
                 msg |-> MsgMarkError, fault |-> "raised", wrote |-> 0]
      ELSE [rows |-> update_cell(sheetRows, row_num, current_lecture),
            data |-> set_present(data, p, current_lecture),
            msg |-> MsgMarked, fault |-> "none", wrote |-> row_num]

\* write_through taking a PRN that is not in the sheet as marked all the same.
write_through_IgnoreNoRow(p, current_lecture, fault, bound, sheetRows, sheetCols, data) ==
  LET row_num == find_row(sheetRows, p)
      failed(msg, hit) ==
        [rows |-> sheetRows, data |-> data, msg |-> msg, fault |-> hit, wrote |-> 0]
  IN  IF ~bound THEN failed(MsgMarkError, "raised")
      ELSE IF fault = "find" THEN failed(MsgMarkError, "raised")
      ELSE IF row_num = 0
           THEN [rows |-> sheetRows, data |-> set_present(data, p, current_lecture),
                 msg |-> MsgMarked, fault |-> "no row", wrote |-> 0]
      ELSE IF ~find_col(sheetCols, current_lecture) THEN failed(MsgMarkError, "raised")
      ELSE IF fault = "update" THEN failed(MsgMarkError, "raised")
      ELSE [rows |-> update_cell(sheetRows, row_num, current_lecture),
            data |-> set_present(data, p, current_lecture),
            msg |-> MsgMarked, fault |-> "none", wrote |-> row_num]

\* The try block of mark_attendance: find the row, find the column, update
\* the cell, then update the local data.  bound: self.sheet was assigned.
\* Yields the rows and data it leaves, its message, the store failure it ran
\* into ("raised": an exception inside the block, "no row": find returned
\* None for the PRN) and the row it wrote.
write_through(p, current_lecture, fault, bound, sheetRows, sheetCols, data) ==
  LET row_num == find_row(sheetRows, p)
      failed(msg, hit) ==
        [rows |-> sheetRows, data |-> data, msg |-> msg, fault |-> hit, wrote |-> 0]
  IN  IF ~bound THEN failed(MsgMarkError, "raised")
      ELSE IF fault = "find" THEN failed(MsgMarkError, "raised")
      ELSE IF row_num = 0 THEN failed(MsgNotInSheet, "no row")
      ELSE IF ~find_col(sheetCols, current_lecture) THEN failed(MsgMarkError, "raised")
      ELSE IF fault = "update" THEN failed(MsgMarkError, "raised")
      ELSE [rows |-> update_cell(sheetRows, row_num, current_lecture),
            data |-> set_present(data, p, current_lecture),
            msg |-> MsgMarked, fault |-> "none", wrote |-> row_num]

\* mark_attendance(prn), current_lecture being what its get_current_lecture
\* call returns.  Yields, for everything the store may do to its calls, the
\* sheet rows and students_data the call leaves, the one message it shows,
\* and whether an exception left it.
mark_attendance(prn, current_lecture, bound, sheetRows, sheetCols, hasData, data) ==
  LET p == Strip(prn)
      g == gate(p, current_lecture, hasData, data)
      known == hasData /\ current_lecture # NoLecture /\ p \in DOMAIN data
      before == IF known THEN data[p].attendance[current_lecture] ELSE ""
      entry(msg, after, hit, wrote) ==
        [call |-> "mark", msg |-> msg, prn |-> p, lecture |-> current_lecture,
         before |-> before, after |-> after, fault |-> hit, wrote |-> wrote]
  IN  IF g = "raise"
      THEN {[rows |-> sheetRows, data |-> data, raised |-> TRUE,
             shown |-> entry("", before, "none", 0)]}
      ELSE IF g # "pass"
      THEN {[rows |-> sheetRows, data |-> data, raised |-> FALSE,
             shown |-> entry(g, before, "none", 0)]}
      ELSE {[rows |-> w.rows, data |-> w.data, raised |-> FALSE,
             shown |-> entry(w.msg, w.data[p].attendance[current_lecture],
                             w.fault, w.wrote)] :
              w \in {write_through(p, current_lecture, fault, bound, sheetRows,
                                   sheetCols, data) : fault \in StoreFaults}}

\* validate_prn checking the format only, the lookup left to mark_attendance.
validate_prn_FormatOnly(text, hasData, data) ==
  LET p == Strip(text)
  IN  IF ~isalnum(p)
      THEN [ok |-> FALSE, prn |-> p,
            shown |-> [Shown(MsgNotAlnum) EXCEPT !.call = "validate", !.prn = p]]
      ELSE [ok |-> TRUE, prn |-> p, shown |-> Shown("")]

\* validate_prn(prn): [ok, prn, shown]; ok is FALSE where the code returns
\* None.  Reading a students_data that was never assigned raises inside its
\* try block and is shown as a validation error.
validate_prn(text, hasData, data) ==
  LET p == Strip(text)
      reject(msg) ==
        [ok |-> FALSE, prn |-> p,
         shown |-> [Shown(msg) EXCEPT !.call = "validate", !.prn = p]]
  IN  IF ~isalnum(p) THEN reject(MsgNotAlnum)
      ELSE IF ~hasData THEN reject(MsgValidationError)
      ELSE IF p \notin DOMAIN data THEN reject(MsgNotInDatabase)
      ELSE [ok |-> TRUE, prn |-> p, shown |-> Shown("")]

\* mark_matches leaving the loop at the first match that is not marked.
RECURSIVE mark_matches_StopAtFailure(_, _, _, _, _, _, _, _)
mark_matches_StopAtFailure(matches, current_lecture, bound, sheetRows, sheetCols, hasData, data, shown) ==
  IF matches = <<>>
  THEN {[rows |-> sheetRows, data |-> data, shown |-> shown, raised |-> FALSE]}
  ELSE UNION
         {IF m.raised
          THEN {[rows |-> m.rows, data |-> m.data, shown |-> shown, raised |-> TRUE]}
          ELSE IF m.shown.msg # MsgMarked
          THEN {[rows |-> m.rows, data |-> m.data,
                 shown |-> Append(shown, m.shown), raised |-> FALSE]}
          ELSE mark_matches_StopAtFailure(Tail(matches), current_lecture, bound,
                                          m.rows, sheetCols, hasData, m.data,
                                          Append(shown, m.shown)) :
            m \in mark_attendance(Head(matches), current_lecture, bound,
                                  sheetRows, sheetCols, hasData, data)}

\* The loop over the matched PRNs of one frame: mark_attendance for each, in
\* order; an exception leaving a call leaves the loop.  Yields every
\* [rows, data, shown, raised] the loop may end with.
RECURSIVE mark_matches(_, _, _, _, _, _, _, _)
mark_matches(matches, current_lecture, bound, sheetRows, sheetCols, hasData, data, shown) ==
  IF matches = <<>>
  THEN {[rows |-> sheetRows, data |-> data, shown |-> shown, raised |-> FALSE]}
  ELSE UNION
         {IF m.raised
          THEN {[rows |-> m.rows, data |-> m.data, shown |-> shown, raised |-> TRUE]}
          ELSE mark_matches(Tail(matches), current_lecture, bound, m.rows,
                            sheetCols, hasData, m.data, Append(shown, m.shown)) :
            m \in mark_attendance(Head(matches), current_lecture, bound,
                                  sheetRows, sheetCols, hasData, data)}

\* -------------------------------------------------------------------- state
VARIABLES
  sheet_bound,              \* self.sheet has been assigned
  cols,                     \* header row of the worksheet
  rows,                     \* data rows of the worksheet
  has_students_data,        \* self.students_data has been assigned
  students_data,            \* PRN -> [name, attendance]
  has_face_encodings,       \* self.face_encodings has been assigned
  face_encodings,           \* PRNs with an enrolled face image
  face_recognition_active,
  now,                      \* wall clock, minute of the day
  running,                  \* the main loop has not been ended by a fault
  lastOp,                   \* the handler or environment step taken last
  console,                  \* the messages that step showed, in order
  frame_matches             \* the PRNs the last camera frame matched

vars ==
  <<sheet_bound, cols, rows, has_students_data, students_data,
    has_face_encodings, face_encodings, face_recognition_active, now,
    running, lastOp, console, frame_matches>>

\* Minutes of the day the clock is observed at: inside Lecture1 (08:30), in
\* the gap after it (09:05), and the first minute of Lecture2 (09:10).
SampleTimes == {510, 545, 550}

\* What the user types into the input box.
TypedInputs ==
  {<<>>, <<" ">>, <<" ", "A", "1", " ">>, A2, <<"A", "-", "1">>, <<"1">>}

\* The identifier column of the class roll the modelled sheets are cut from:
\* two ordinary PRNs, a cell left empty, and a numeric PRN written with a
\* leading zero.
Roll == <<A1, <<>>, <<"0", "1">>, A2>>

\* The subsequences of q with at most n members.
RECURSIVE SubSeqs(_, _)
SubSeqs(q, n) ==
  IF q = <<>> \/ n = 0 THEN {<<>>}
  ELSE SubSeqs(Tail(q), n) \cup {<<Head(q)>> \o r : r \in SubSeqs(Tail(q), n - 1)}

\* Sheets with the given identifier columns, every lecture cell holding fill.
Sheets(columns, fills) ==
  {[i \in 1..Len(cells) |-> Row(cells[i], fill)] : cells \in columns, fill \in fills}

\* Sheets the program may be started on: up to MaxRows rows of the roll, the
\* lecture cells still blank or filled with 'Absent'.
InitialSheets == Sheets(SubSeqs(Roll, MaxRows), {"", "Absent"})

\* The sequences over S with at most n members.
RECURSIVE SeqsUpTo(_, _)
SeqsUpTo(S, n) ==
  IF n = 0 THEN {<<>>}
  ELSE LET shorter == SeqsUpTo(S, n - 1)
       IN  shorter \cup {Append(q, x) : q \in {r \in shorter : Len(r) = n - 1}, x \in S}

\* Enrolled image files found by setup_face_recognition.
EnrolledSets == {{A1, A2}}

\* __init__: connect, load the roster, load the face encodings; any failure
\* is shown and skips the steps after it.
Init ==
  /\ cols = AllCols
  /\ rows \in InitialSheets
  /\ now \in SampleTimes
  /\ running = TRUE
  /\ face_recognition_active = FALSE
  /\ lastOp = "init"
  /\ frame_matches = <<>>
  /\ \E connected \in BOOLEAN, fault1 \in BOOLEAN, fault2 \in BOOLEAN :
       LET s == setup_student_data(rows, cols, fault1, fault2)
       IN  IF ~connected
           THEN /\ fault1 = FALSE /\ fault2 = FALSE
                /\ sheet_bound = FALSE
                /\ has_students_data = FALSE
                /\ students_data = EmptyData
                /\ has_face_encodings = FALSE
                /\ face_encodings = {}
                /\ console = <<Shown(MsgConnectFailed), Shown(MsgInitError)>>
           ELSE /\ sheet_bound = TRUE
                /\ has_students_data = TRUE
                /\ students_data = s.data
                /\ IF s.ok
                   THEN /\ has_face_encodings = TRUE
                        /\ face_encodings \in EnrolledSets
                        /\ console = <<Shown(MsgConnected)>> \o s.shown
                   ELSE /\ fault2 = FALSE
                        /\ has_face_encodings = FALSE
                        /\ face_encodings = {}
                        /\ console = <<Shown(MsgConnected)>> \o s.shown
                                       \o <<Shown(MsgInitError)>>

\* ------------------------------------------------------------------ actions
\* handle_manual_entry with self.input_text = text.  An exception that leaves
\* mark_attendance is caught nowhere and ends the main loop.
ManualEntry(text) ==
  /\ running
  /\ lastOp' = "typed"
  /\ frame_matches' = <<>>
  /\ IF text = <<>>
     THEN /\ console' = <<Shown(MsgEnterPRN)>>
          /\ UNCHANGED <<rows, students_data, running>>
     ELSE LET v == validate_prn(text, has_students_data, students_data)
          IN  IF ~v.ok
              THEN /\ console' = <<v.shown>>
                   /\ UNCHANGED <<rows, students_data, running>>
              ELSE \E m \in mark_attendance(v.prn, get_current_lecture(now),
                                            sheet_bound, rows, cols,
                                            has_students_data, students_data) :
                     /\ console' = IF m.raised THEN <<>> ELSE <<m.shown>>
                     /\ rows' = m.rows
                     /\ students_data' = m.data
                     /\ running' = ~m.raised
  /\ UNCHANGED <<sheet_bound, cols, has_students_data, has_face_encodings,
                 face_encodings, face_recognition_active, now>>

\* The 'refresh' button: update_attendance_from_sheet.
Refresh(fault) ==
  /\ running
  /\ lastOp' = "refresh"
  /\ frame_matches' = <<>>
  /\ LET u == update_attendance_from_sheet(sheet_bound, rows, cols,
                                           students_data, fault)
     IN  /\ students_data' = u.data
         /\ console' = <<u.shown>>
  /\ UNCHANGED <<sheet_bound, cols, rows, has_students_data, has_face_encodings,
                 face_encodings, face_recognition_active, now, running>>

\* The 'face_recognition' button: toggle_face_recognition.  Reading
\* self.face_encodings before it was ever assigned is an AttributeError that
\* nothing catches: it ends the main loop.
ToggleFace(cameraOpens) ==
  /\ running
  /\ lastOp' = "toggle"
  /\ frame_matches' = <<>>
  /\ IF face_recognition_active
     THEN /\ face_recognition_active' = FALSE
          /\ console' = <<Shown(MsgFaceOff)>>
          /\ UNCHANGED running
     ELSE IF ~has_face_encodings
     THEN /\ running' = FALSE
          /\ console' = <<>>
          /\ UNCHANGED face_recognition_active
     ELSE IF face_encodings = {}
     THEN /\ console' = <<Shown(MsgNoFaceData)>>
          /\ UNCHANGED <<face_recognition_active, running>>
     ELSE IF cameraOpens
     THEN /\ face_recognition_active' = TRUE
          /\ console' = <<Shown(MsgFaceOn)>>
          /\ UNCHANGED running
     ELSE /\ console' = <<Shown(MsgCameraError)>>
          /\ UNCHANGED <<face_recognition_active, running>>
  /\ UNCHANGED <<sheet_bound, cols, rows, has_students_data, students_data,
                 has_face_encodings, face_encodings, now>>

\* The matched PRNs of one frame, over all its faces: enrolled PRNs, in the
\* order the loops reach them.
MatchLists == SeqsUpTo(face_encodings, MaxBatch)

\* The tail of one main loop pass while face recognition is active:
\* process_face_recognition, then draw_ui.  camera is what the capture does:
\* it raises, or it delivers a frame whose faces match the PRNs of matches
\* (none when no frame was read or no face matched: the pass then changes
\* nothing).  Any exception is shown and turns face recognition off.
CameraFrame(camera, matches) ==
  /\ running
  /\ face_recognition_active
  /\ CASE camera = "raise" ->
            /\ matches = <<>>
            /\ face_recognition_active' = FALSE
            /\ console' = <<Shown(MsgFaceError), Shown(MsgFaceOff)>>
            /\ lastOp' = "bio"
            /\ frame_matches' = matches
            /\ UNCHANGED <<rows, students_data>>
       [] camera = "frame" /\ matches = <<>> ->
            UNCHANGED <<face_recognition_active, console, lastOp,
                        frame_matches, rows, students_data>>
       [] camera = "frame" /\ matches # <<>> ->
            \E current_lecture \in {get_current_lecture(now)} :
            \E b \in mark_matches(matches, current_lecture, sheet_bound, rows,
                                  cols, has_students_data, students_data, <<>>) :
              /\ rows' = b.rows
              /\ students_data' = b.data
              /\ face_recognition_active' = ~b.raised
              /\ console' = IF b.raised
                            THEN b.shown \o <<Shown(MsgFaceError), Shown(MsgFaceOff)>>
                            ELSE b.shown
              /\ lastOp' = "bio"
              /\ frame_matches' = matches
  /\ UNCHANGED <<sheet_bound, cols, has_students_data, has_face_encodings,
                 face_encodings, now, running>>

\* The tail of a main loop pass when self.students_data was never assigned:
\* draw_attendance_list reads it, an AttributeError that nothing catches.
\* (With students_data assigned and face recognition off the pass changes
\* nothing of this state.)
DrawFault ==
  /\ running
  /\ ~has_students_data
  /\ lastOp' = "draw"
  /\ running' = FALSE
  /\ console' = <<>>
  /\ frame_matches' = <<>>
  /\ UNCHANGED <<sheet_bound, cols, rows, has_students_data, students_data,
                 has_face_encodings, face_encodings, face_recognition_active,
                 now>>

\* The wall clock moves on to a later observed minute.
Tick ==
  /\ running
  /\ \E t \in SampleTimes : t > now /\ now' = t
  /\ lastOp' = "tick"
  /\ console' = <<>>
  /\ frame_matches' = <<>>
  /\ UNCHANGED <<sheet_bound, cols, rows, has_students_data, students_data,
                 has_face_encodings, face_encodings, face_recognition_active,
                 running>>

\* Columns whose header somebody else may rename or delete in the shared
\* worksheet while the program runs.
EditedCols == {"PRN", "Lecture2"}

SheetEdited(c) ==
  /\ running
  /\ sheet_bound
  /\ c \in cols
  /\ cols' = cols \ {c}
  /\ lastOp' = "edit"
  /\ console' = <<>>
  /\ frame_matches' = <<>>
  /\ UNCHANGED <<sheet_bound, rows, has_students_data, students_data,
                 has_face_encodings, face_encodings, face_recognition_active,
                 now, running>>

Next ==
  \/ \E text \in TypedInputs : ManualEntry(text)
  \/ \E fault \in BOOLEAN : Refresh(fault)
  \/ \E cameraOpens \in BOOLEAN : ToggleFace(cameraOpens)
  \/ \E camera \in {"raise", "frame"}, matches \in MatchLists :
       CameraFrame(camera, matches)
  \/ DrawFault
  \/ Tick
  \/ \E c \in EditedCols : SheetEdited(c)

Spec == Init /\ [][Next]_vars

\* ------------------------------------------------- schedule, minute by minute
\* The program started on a one-row sheet at any minute of the day; PRNs are
\* typed in and the clock moves on one minute at a time.
InitSchedule ==
  /\ cols = AllCols
  /\ rows = <<Row(A1, "Absent")>>
  /\ now \in 0..1439
  /\ running = TRUE
  /\ face_recognition_active = FALSE
  /\ lastOp = "init"
  /\ frame_matches = <<>>
  /\ sheet_bound = TRUE
  /\ has_students_data = TRUE
  /\ students_data = setup_student_data(rows, cols, FALSE, FALSE).data
  /\ has_face_encodings = TRUE
  /\ face_encodings = {A1, A2}
  /\ console = <<Shown(MsgConnected), Shown(MsgRefreshed)>>

MinutePasses ==
  /\ running
  /\ now < 1439
  /\ now' = now + 1
  /\ lastOp' = "tick"
  /\ console' = <<>>
  /\ frame_matches' = <<>>
  /\ UNCHANGED <<sheet_bound, cols, rows, has_students_data, students_data,
                 has_face_encodings, face_encodings, face_recognition_active,
                 running>>

NextSchedule ==
  \/ \E text \in TypedInputs : ManualEntry(text)
  \/ MinutePasses

SpecSchedule == InitSchedule /\ [][NextSchedule]_vars

\* --------------------------------------------------------------- properties
IsAttempt(op) == op \in {"typed", "bio"}

\* The sheet cells and the roster entries a step changes.
ChangedCells ==
  {c \in (1..Len(rows)) \X LectureSet : rows'[c[1]].att[c[2]] # rows[c[1]].att[c[2]]}

ChangedStatus ==
  {c \in (DOMAIN students_data) \X LectureSet :
     students_data'[c[1]].attendance[c[2]] # students_data[c[1]].attendance[c[2]]}

\* A marking step leaves the sheet's shape and the roster's keys alone.
SameShape ==
  /\ Len(rows') = Len(rows)
  /\ \A r \in 1..Len(rows) : rows'[r].PRN = rows[r].PRN
  /\ DOMAIN students_data' = DOMAIN students_data

\* C1: marking is idempotent per (subject, session).  Of two attempts for the
\* same subject in the same lecture that follow each other directly, typed
\* or from the camera, the second after a 'Marked present' is 'Already marked
\* present' and writes nothing; no attempt that finds the status 'Present'
\* writes; every attempt that writes leaves the status 'Present', so that the
\* next one finds it; and the sheet changes nowhere but where an attempt wrote.
C1_Step ==
  IsAttempt(lastOp') =>
    LET prev == IF IsAttempt(lastOp) /\ console # <<>>
                THEN <<console[Len(console)]>> ELSE <<>>
        run == prev \o console'
    IN  /\ \A i \in 1..(Len(run) - 1) :
              ( /\ run[i].call = "mark" /\ run[i].msg = MsgMarked
                /\ run[i + 1].call = "mark"
                /\ run[i + 1].prn = run[i].prn
                /\ run[i + 1].lecture = run[i].lecture )
              => run[i + 1].msg = MsgAlready /\ run[i + 1].wrote = 0
        /\ \A i \in 1..Len(console') :
              console'[i].call = "mark" =>
                /\ console'[i].before = "Present" =>
                     console'[i].msg = MsgAlready /\ console'[i].wrote = 0
                /\ console'[i].wrote # 0 =>
                     console'[i].before # "Present" /\ console'[i].after = "Present"
        /\ SameShape
        /\ ChangedCells \subseteq
             {<<console'[i].wrote, console'[i].lecture>> :
                i \in {j \in 1..Len(console') : console'[j].wrote # 0}}

C1_IdempotentMarking == [][C1_Step]_vars

\* A camera frame matched the same PRN twice: marked, then already marked.
C1_Witness ==
  /\ lastOp = "bio"
  /\ Len(console) = 2
  /\ console[1].msg = MsgMarked /\ console[1].wrote # 0
  /\ console[2].msg = MsgAlready /\ console[2].wrote = 0
  /\ console[2].prn = console[1].prn

\* C2: the store write precedes the in-memory update.  Whenever a marking
\* step turns a roster status to 'Present', that step shows 'Marked present'
\* for that PRN and lecture, and the sheet row it wrote is the PRN's and
\* holds 'Present' in that lecture's column.
C2_Step ==
  IsAttempt(lastOp') =>
    /\ SameShape
    /\ \A c \in ChangedStatus :
          /\ students_data'[c[1]].attendance[c[2]] = "Present"
          /\ \E i \in 1..Len(console') :
                /\ console'[i].call = "mark"
                /\ console'[i].prn = c[1]
                /\ console'[i].lecture = c[2]
                /\ console'[i].msg = MsgMarked
                /\ console'[i].wrote \in 1..Len(rows)
                /\ rows'[console'[i].wrote].PRN = c[1]
                /\ rows'[console'[i].wrote].att[c[2]] = "Present"

C2_WriteBeforeLocalUpdate == [][C2_Step]_vars

\* A typed PRN was marked: the sheet and the roster both say 'Present'.
C2_Witness ==
  /\ lastOp = "typed"
  /\ Len(console) = 1
  /\ console[1].msg = MsgMarked
  /\ console[1].wrote \in 1..Len(rows)
  /\ rows[console[1].wrote].att[console[1].lecture] = "Present"
  /\ students_data[console[1].prn].attendance[console[1].lecture] = "Present"

\* C3: a store failure during a marking attempt is shown as a failure and
\* leaves the roster as it was.  An attempt that reaches the store while the
\* PRN's row or the lecture's column is missing, or whose store call raises,
\* shows 'PRN not found in sheet' or 'Error marking attendance', writes
\* nothing and leaves the status not 'Present'; the roster changes only
\* where an attempt without a store failure was marked.
StoreFailureMsgs == {MsgNotInSheet, MsgMarkError}

ReachedStore(e) == e.call = "mark" /\ e.msg \in {MsgMarked} \cup StoreFailureMsgs

C3_Step ==
  IsAttempt(lastOp') =>
    /\ SameShape
    /\ \A i \in 1..Len(console') :
          LET e == console'[i]
          IN  /\ ( ReachedStore(e)
                   /\ (find_row(rows, e.prn) = 0 \/ e.lecture \notin cols) )
                 => e.fault # "none"
              /\ e.fault # "none" =>
                   /\ e.msg \in StoreFailureMsgs
                   /\ e.wrote = 0
                   /\ e.after = e.before
                   /\ e.after # "Present"
    /\ \A c \in ChangedStatus :
          \E i \in 1..Len(console') :
            /\ console'[i].prn = c[1] /\ console'[i].lecture = c[2]
            /\ console'[i].msg = MsgMarked /\ console'[i].fault = "none"
    /\ (\A i \in 1..Len(console') : console'[i].fault # "none") =>
          students_data' = students_data /\ rows' = rows

C3_StoreFailureSurfaced == [][C3_Step]_vars

\* A typed PRN of the roster has no row in the sheet: shown, nothing marked.
C3_Witness ==
  /\ lastOp = "typed"
  /\ Len(console) = 1
  /\ console[1].fault = "no row"
  /\ console[1].msg = MsgNotInSheet
  /\ students_data[console[1].prn].attendance[console[1].lecture] # "Present"

\* C4: refresh is all-or-nothing.  Whenever the refresh button ends in
\* 'Error refreshing data', the roster is what it was before the refresh.
C4_Step ==
  ( /\ lastOp' = "refresh"
    /\ console'[1].msg = MsgRefreshError )
  => students_data' = students_data

C4_RefreshAllOrNothing == [][C4_Step]_vars

\* C5: one record with an empty identifier among valid ones is skipped and
\* reported.  After a refresh that read a sheet with exactly one empty
\* identifier cell, the roster holds exactly the identifiers of the other
\* rows, and the refresh showed a failure for the record next to its outcome.
ValidRows == {i \in 1..Len(rows) : rows[i].PRN # <<>>}

C5_MalformedRecordSkipped ==
  ( /\ lastOp = "refresh"
    /\ console[1].msg = MsgRefreshed
    /\ Cardinality((1..Len(rows)) \ ValidRows) = 1 )
  => /\ DOMAIN students_data = {str_of_cell(rows[i].PRN) : i \in ValidRows}
     /\ Len(console) = 2

\* C6: a camera frame handles every matched PRN on its own.  Every match of
\* the frame gets its own message, in order, whatever the matches before it
\* came to; a match whose status is 'Present' is 'Already marked present'
\* and writes nothing; and of two different matches, the first 'Present' and
\* the second a roster PRN that is not and meets no store failure, the first
\* is 'Already marked present', the second 'Marked present', with one write
\* and at most one sheet cell changed.
C6_Step ==
  (lastOp' = "bio" /\ frame_matches' # <<>>) =>
    LET out == console'
    IN  /\ Len(out) = Len(frame_matches')
        /\ \A i \in 1..Len(out) :
              /\ out[i].call = "mark"
              /\ out[i].prn = frame_matches'[i]
              /\ out[i].msg # ""
              /\ out[i].before = "Present" =>
                   out[i].msg = MsgAlready /\ out[i].wrote = 0
        /\ ( /\ Len(out) = 2
             /\ out[1].prn # out[2].prn
             /\ out[1].before = "Present"
             /\ out[2].prn \in DOMAIN students_data
             /\ out[2].before # "Present"
             /\ out[2].fault = "none" )
           => /\ out[1].msg = MsgAlready
              /\ out[2].msg = MsgMarked
              /\ out[1].wrote = 0 /\ out[2].wrote # 0
              /\ ChangedCells \subseteq {<<out[2].wrote, out[2].lecture>>}

C6_BatchIndependent == [][C6_Step]_vars

\* One frame matched two PRNs: the first already present, the second marked.
C6_Witness ==
  /\ lastOp = "bio"
  /\ Len(console) = 2
  /\ console[1].prn # console[2].prn
  /\ console[1].msg = MsgAlready
  /\ console[2].msg = MsgMarked

\* C7 as stated: outside every lecture window a marking attempt shows 'No
\* active lecture at this time' whatever identifier it is for, typed or
\* matched by the camera.
C7_Original_Step ==
  (IsAttempt(lastOp') /\ get_current_lecture(now) = NoLecture) =>
    \A i \in 1..Len(console') :
      console'[i].call \in {"mark", "validate"} => console'[i].msg = MsgNoLecture

EarlyRejections ==
  {MsgNoLecture, MsgEnterValid, MsgNotFound, MsgEnterPRN, MsgNotAlnum,
   MsgNotInDatabase, MsgValidationError}

C7_Step ==
  IsAttempt(lastOp') =>
    /\ \A i \in 1..Len(console') :
          LET e == console'[i]
          IN  /\ e.msg \in EarlyRejections =>
                   e.wrote = 0 /\ e.after = e.before /\ e.fault = "none"
              /\ (e.call = "mark" /\ (now = 545 \/ get_current_lecture(now) = NoLecture))
                   => e.msg = MsgNoLecture
              /\ e.call = "validate" =>
                   /\ e.msg \in {MsgNotAlnum, MsgNotInDatabase, MsgValidationError}
                   /\ ~isalnum(e.prn) \/ ~has_students_data
                        \/ e.prn \notin DOMAIN students_data
              /\ (e.call = "mark" /\ lastOp' = "typed") =>
                   isalnum(e.prn) /\ e.prn \in DOMAIN students_data
    /\ (\A i \in 1..Len(console') : console'[i].msg \in EarlyRejections) =>
          rows' = rows /\ students_data' = students_data

C8_Step ==
  IsAttempt(lastOp') =>
    LET S1 == get_current_lecture(now)
        marked == {i \in 1..Len(console') :
                     console'[i].call = "mark" /\ console'[i].msg = MsgMarked}
    IN  /\ SameShape
        /\ \A p \in DOMAIN students_data :
              students_data'[p].name = students_data[p].name
        /\ \A c \in ChangedStatus :
              c[2] = S1 /\ \E i \in marked : console'[i].prn = c[1]
        /\ \A c \in ChangedCells :
              c[2] = S1 /\ \E i \in marked : console'[i].prn = rows[c[1]].PRN

C8_SessionIndependence == [][C8_Step]_vars

\* A PRN marked in Lecture1 was marked again in Lecture2; in Lecture3 its
\* status is still what it was loaded with.
C8_Witness ==
  /\ IsAttempt(lastOp)
  /\ console # <<>>
  /\ console[1].msg = MsgMarked
  /\ console[1].lecture = "Lecture2"
  /\ students_data[console[1].prn].attendance["Lecture1"] = "Present"
  /\ students_data[console[1].prn].attendance["Lecture3"] # "Present"

\* C9: the current lecture is the first configured window that contains the
\* minute, both ends included.  Windows holds the configured windows as
\* minutes of the day; whatever minute a typed PRN is marked at, the lecture
\* mark_attendance resolved is the first window with start <= minute <= end,
\* None if there is none: Lecture1 at 08:00 and 09:00, None at 07:59 and from
\* 09:01 to 09:09, Lecture2 at 09:10.
Windows ==
  <<<<480, 540>>, <<550, 610>>, <<620, 680>>, <<690, 750>>,
    <<840, 900>>, <<910, 970>>, <<980, 1040>>, <<1050, 1410>>>>

ExpectedLecture(minute) ==
  LET hits == {i \in 1..Len(Windows) :
                 Windows[i][1] <= minute /\ minute <= Windows[i][2]}
  IN  IF hits = {} THEN NoLecture
      ELSE LectureNames[CHOOSE i \in hits : \A j \in hits : i <= j]

C9_ClosedIntervalResolution ==
  \A i \in 1..Len(console) :
    console[i].call = "mark" =>
      /\ console[i].lecture = ExpectedLecture(now)
      /\ console[i].msg = MsgNoLecture <=> ExpectedLecture(now) = NoLecture
      /\ now \in {480, 540} => console[i].lecture = "Lecture1"
      /\ now \in {479} \cup (541..549) => console[i].lecture = NoLecture
      /\ now = 550 => console[i].lecture = "Lecture2"

\* A PRN typed at 09:00 sharp, the last minute of Lecture1.
C9_Witness ==
  /\ now = 540
  /\ lastOp = "typed"
  /\ console # <<>>
  /\ console[1].call = "mark"
  /\ console[1].lecture = "Lecture1"

\* C10: no failure leaves a marking or refresh handler as an exception.
\* After a typed entry, a camera frame or a refresh the main loop is still
\* running and the handler has shown a message for what it did (a camera
\* frame one for every match); when the main loop has ended, what ended it
\* was neither of those handlers.
C10_NoUnhandledFault ==
  /\ lastOp \in {"typed", "bio", "refresh"} =>
       /\ running
       /\ console # <<>>
       /\ \A i \in 1..Len(console) : console[i].msg # ""
       /\ Len(console) >= Len(frame_matches)
  /\ ~running => lastOp \in {"toggle", "draw"}

\* The connection failed at start; a PRN typed afterwards is answered with a
\* validation error and the main loop goes on.
C10_Witness ==
  /\ ~sheet_bound
  /\ running
  /\ lastOp = "typed"
  /\ console # <<>>
  /\ console[1].msg = MsgValidationError

\* C11: once the roster has been loaded, and after any refreshes and marking
\* attempts, every PRN of the roster has an attendance entry for each of
\* Lecture1..Lecture8 and for no other key, and every entry is 'Present' or
\* 'Absent', whatever the lecture cells of the sheet hold.
C11_TotalAttendanceMap ==
  has_students_data =>
    \A p \in DOMAIN students_data :
      /\ DOMAIN students_data[p].attendance = LectureSet
      /\ \A l \in LectureSet :
           students_data[p].attendance[l] \in {"Present", "Absent"}

====
